---- MODULE Spec2Model ----
(***************************************************************************)
(* Model of the AI gateway service: API-key authentication, the Redis      *)
(* response cache (CacheService), the chat / summarize / translate         *)
(* handlers and usage metering.                                            *)
(*                                                                         *)
(* Python str values are sequences of tokens (the empty string is <<>>),   *)
(* Optional[str] is a record [some, val], a dict is the sequence of its    *)
(* (name, value) pairs in insertion order.                                 *)
(***************************************************************************)
EXTENDS Integers, Sequences, FiniteSets, TLC

VARIABLES
    redisConn,  \* CacheService._redis: "none" (None) or "client"
    store,      \* contents of the Redis backend: key -> [val, ttl]
    apiKeys,    \* table api_keys: id -> row (exists = FALSE: no such row)
    usage,      \* table usage_records, in insertion order
    req,        \* in-flight HTTP requests: request slot -> task state
    last,       \* the most recent direct CacheService call and what it returned
    expect,     \* history: the value last written per (namespace, mapping), if still live
    probe,      \* inputs and results of _generate_key evaluations
    app,        \* lifespan of the FastAPI process: "starting", "serving", "stopped"
    hits,       \* the limiter's storage: requests counted per key in the current window
    admitted,   \* history: requests the limiter let through per credential, current window
    admin,      \* the latest response of the key administration and usage endpoints
    now,        \* the clock, in days since the process started
    instances   \* CacheService() calls: the object each returned, and each object's _redis

vars ==
    <<redisConn, store, apiKeys, usage, req, last, expect, probe, app, hits, admitted, admin, now,
      instances>>

----------------------------------------------------------------------------
(* Bounds of the model *)

MaxUsage == 2          \* usage rows the explored runs may append
MaxBurst == 1          \* requests per limiter window in the scenarios that are not about the limiter

----------------------------------------------------------------------------
(* Python values *)

None == [some |-> FALSE, val |-> <<>>]
Some(v) == [some |-> TRUE, val |-> v]

\* truthiness of an Optional[str]: None and "" are both falsy
Truthy(x) == x.some /\ x.val # <<>>

\* a dict as a mapping, forgetting insertion order
AsMapping(data) == { data[i] : i \in DOMAIN data }

----------------------------------------------------------------------------
(* json.dumps(data, sort_keys=True) and hashlib.sha256(...).hexdigest() *)

\* every field name in use, in lexicographic (code point) order
SortedNames ==
    << "a", "b", "max_length", "max_tokens", "messages", "model",
       "source_language", "style", "target_language", "temperature", "text" >>

\* every token a serialized string is made of
Alphabet ==
    SortedNames \o
    << "{", "}", "1", "2", "3", "q1", "q2", "gpt-3.5-turbo", "1000", "0.7",
       "200", "concise", "auto", "es", "ai_", "x1", "x2", "x3", "en" >>

\* the code of each token: its position in Alphabet
TokenCodes ==
    [t \in { Alphabet[i] : i \in DOMAIN Alphabet } |->
        CHOOSE i \in DOMAIN Alphabet : Alphabet[i] = t]

TokenCode(t) == TokenCodes[t]

HasName(data, n) == \E i \in DOMAIN data : data[i][1] = n
ValueOf(data, n) == data[CHOOSE i \in DOMAIN data : data[i][1] = n][2]

\* the names of data in insertion order (sort_keys=False)
InsertionNames(data) == [i \in DOMAIN data |-> data[i][1]]

\* the names of data in sorted order (sort_keys=True)
SortedKeys(data) == SelectSeq(SortedNames, LAMBDA n : HasName(data, n))

RECURSIVE Emit(_, _)
Emit(data, names) ==
    IF names = <<>> THEN <<>>
    ELSE <<Head(names), ValueOf(data, Head(names))>> \o Emit(data, Tail(names))

json_dumps_names_only(data) == <<"{">> \o SortedKeys(data) \o <<"}">>

\* json.dumps(data, sort_keys=True): the pairs in key order between braces
json_dumps_sorted(data) == <<"{">> \o Emit(data, SortedKeys(data)) \o <<"}">>

\* one 16-hex-digit word of a digest: a mix of every token of the input
RECURSIVE Mix(_, _, _)
Mix(s, mult, acc) ==
    IF s = <<>> THEN acc
    ELSE Mix(Tail(s), mult, (acc * mult + TokenCode(Head(s))) % 65521)

\* sha256(s).hexdigest(): 64 hex digits, here four 16-digit words
sha256_hexdigest(s) == << Mix(s, 31, 7), Mix(s, 37, 11), Mix(s, 41, 13), Mix(s, 43, 17) >>

\* CacheService._generate_key: f"{prefix}:{hexdigest[:16]}"
generate_key_unsorted(prefix, data) ==
    <<prefix, ":">> \o
    SubSeq(sha256_hexdigest(<<"{">> \o Emit(data, InsertionNames(data)) \o <<"}">>), 1, 1)

generate_key(prefix, data) ==
    <<prefix, ":">> \o SubSeq(sha256_hexdigest(json_dumps_sorted(data)), 1, 1)

----------------------------------------------------------------------------
(* Settings *)

cache_ttl_seconds == 3600
rate_limit_per_minute == 10

----------------------------------------------------------------------------
(* The Redis backend, as CacheService uses it *)

RedisGet(st, key) == IF key \in DOMAIN st THEN Some(st[key].val) ELSE None

RedisSet(st, key, val, ex) == [k \in DOMAIN st \cup {key} |->
                                  IF k = key THEN [val |-> val, ttl |-> ex] ELSE st[k]]

RedisDelete(st, keys) == [k \in DOMAIN st \ keys |-> st[k]]

\* scan_iter(f"{prefix}:*"): the keys that start with the prefix and the separator
ScanIter(st, prefix) == { k \in DOMAIN st : k[1] = prefix /\ k[2] = ":" }

EmptyStore == [k \in {} |-> None]

----------------------------------------------------------------------------
(* CacheService: each operation yields what it returns, whether it raised,  *)
(* and the backend contents it leaves.  ok = FALSE: the backend call fails  *)
(* (connection lost, timeout) and raises inside the client.                 *)

Returned(result, st) == [raised |-> FALSE, result |-> result, store |-> st]
Raised(st) == [raised |-> TRUE, result |-> None, store |-> st]

cache_get_unguarded(conn, st, prefix, data, ok) ==
    IF ~ok THEN Raised(st)
    ELSE LET cached == RedisGet(st, generate_key(prefix, data))
         IN  Returned(IF Truthy(cached) THEN cached ELSE None, st)

cache_get(conn, st, prefix, data, ok) ==
    IF conn = "none" THEN Returned(None, st)
    ELSE IF ~ok THEN Returned(None, st)
    ELSE LET cached == RedisGet(st, generate_key(prefix, data))
         IN  Returned(IF Truthy(cached) THEN cached ELSE None, st)

cache_set_if_absent(conn, st, prefix, data, response, ttl, ok) ==
    IF conn = "none" THEN Returned(None, st)
    ELSE LET key == generate_key(prefix, data)
             ex  == IF ttl # 0 THEN ttl ELSE cache_ttl_seconds
         IN  IF ok /\ ex > 0 /\ key \notin DOMAIN st
             THEN Returned(None, RedisSet(st, key, response, ex))
             ELSE Returned(None, st)

cache_set_no_default(conn, st, prefix, data, response, ttl, ok) ==
    IF conn = "none" THEN Returned(None, st)
    ELSE LET key == generate_key(prefix, data)
         IN  IF ok /\ ttl >= 0
             THEN Returned(None, RedisSet(st, key, response, ttl))
             ELSE Returned(None, st)

\* ttl = 0 stands for both ttl=None and ttl=0 (ttl or default).  Redis refuses
\* SET ... EX with an expire time that is not positive; the error is caught and
\* nothing is written.
cache_set(conn, st, prefix, data, response, ttl, ok) ==
    IF conn = "none" THEN Returned(None, st)
    ELSE LET key == generate_key(prefix, data)
             ex  == IF ttl # 0 THEN ttl ELSE cache_ttl_seconds
         IN  IF ok /\ ex > 0
             THEN Returned(None, RedisSet(st, key, response, ex))
             ELSE Returned(None, st)

cache_delete_no_try(conn, st, prefix, data, ok) ==
    IF conn = "none" THEN Returned(None, st)
    ELSE IF ~ok THEN Raised(st)
    ELSE Returned(None, RedisDelete(st, {generate_key(prefix, data)}))

cache_delete(conn, st, prefix, data, ok) ==
    IF conn = "none" THEN Returned(None, st)
    ELSE IF ~ok THEN Returned(None, st)
    ELSE Returned(None, RedisDelete(st, {generate_key(prefix, data)}))

\* clear_prefix returns a count; it is carried in result.val as a one-element string
CountResult(n) == [some |-> TRUE, val |-> <<n>>]

clear_prefix_all(conn, st, prefix, ok) ==
    IF conn = "none" THEN Returned(CountResult(0), st)
    ELSE IF ~ok THEN Returned(CountResult(0), st)
    ELSE Returned(CountResult(Cardinality(DOMAIN st)), EmptyStore)

clear_prefix(conn, st, prefix, ok) ==
    IF conn = "none" THEN Returned(CountResult(0), st)
    ELSE IF ~ok THEN Returned(CountResult(0), st)
    ELSE LET keys == ScanIter(st, prefix)
         IN  Returned(CountResult(Cardinality(keys)), RedisDelete(st, keys))

\* CacheService objects made by calling the class.  Object 0 is the module-level
\* cache_service, whose _redis is redisConn.
MaxInstances == 3                 \* CacheService() calls

NoInstances == [held |-> <<>>, redis |-> <<>>]

\* service = CacheService(): the class defines __init__ only, so the call makes a
\* new object, with _redis = None, and returns it
CacheService_new ==
    /\ Len(instances.held) < MaxInstances
    /\ instances' = [held |-> Append(instances.held, Len(instances.redis) + 1),
                     redis |-> Append(instances.redis, "none")]
    /\ UNCHANGED <<redisConn, store, apiKeys, usage, req, last, expect, probe, app, hits, admitted, admin, now>>

\* await service.connect() through the h-th holder
holder_connect(h, ok) ==
    /\ h \in DOMAIN instances.held
    /\ instances' = [instances EXCEPT !.redis[instances.held[h]] =
                                         IF ok THEN "client" ELSE "none"]
    /\ UNCHANGED <<redisConn, store, apiKeys, usage, req, last, expect, probe, app, hits, admitted, admin, now>>

----------------------------------------------------------------------------
(* Inputs of the direct CacheService calls *)

ApiNamespaces == {"test", "chat"}
FieldValues == {"1", "2"}

\* dicts over the names a, b: every insertion order, at most one value per name
ApiData ==
    {<<>>} \cup
    { <<<<n, v>>>> : n \in {"a", "b"}, v \in FieldValues } \cup
    { <<<<"a", v>>, <<"b", w>>>> : v \in FieldValues, w \in FieldValues } \cup
    { <<<<"b", w>>, <<"a", v>>>> : v \in FieldValues, w \in FieldValues }

\* the dicts the cache scenario stores under: {"a": "1", "b": w} in both orders
CacheData == { d \in ApiData : Len(d) = 2 /\ ValueOf(d, "a") = "1" }

CacheValues == { <<>>, <<"q1">>, <<"q2">> }
CacheTtls == {0}

\* the ttl arguments of the expiry scenario: negative, omitted (or 0), positive
TtlValues == {-1, 0, 60}

Pairs == { <<ns, AsMapping(d)>> : ns \in ApiNamespaces, d \in CacheData }

\* a call as the history keeps it: the operation, the namespace and mapping it
\* named (get and clear_prefix), the connector state, the backend's health
NoCall == [op |-> "none", prefix |-> "", mapping |-> {}, conn |-> "none", ok |-> TRUE,
           raised |-> FALSE, result |-> None, ttl |-> 0]

NoProbe == [prefix |-> "", d1 |-> <<>>, d2 |-> <<>>, k1 |-> <<>>, k2 |-> <<>>, done |-> FALSE]

Call(op, prefix, mapping, ok, r) ==
    [op |-> op, prefix |-> prefix, mapping |-> mapping, conn |-> redisConn, ok |-> ok,
     raised |-> r.raised, result |-> r.result, ttl |-> 0]

\* the key each (namespace, mapping) pair is stored under
PairKey ==
    [p \in Pairs |-> generate_key(p[1], CHOOSE d \in CacheData : AsMapping(d) = p[2])]

----------------------------------------------------------------------------
(* Direct use of CacheService (as in tests/test_cache.py) *)

\* CacheService.connect: ok = FALSE is a Redis that cannot be reached
connect(ok) ==
    /\ redisConn' = IF ok THEN "client" ELSE "none"
    /\ last' = [NoCall EXCEPT !.op = "connect", !.conn = redisConn, !.ok = ok]
    /\ UNCHANGED <<store, apiKeys, usage, req, expect, probe, app, hits, admitted, admin, now, instances>>

\* CacheService.disconnect: closes the client, _redis keeps its value
disconnect ==
    /\ last' = [NoCall EXCEPT !.op = "disconnect", !.conn = redisConn]
    /\ UNCHANGED <<redisConn, store, apiKeys, usage, req, expect, probe, app, hits, admitted, admin, now, instances>>

ApiGet(prefix, data, ok) ==
    LET r == cache_get(redisConn, store, prefix, data, ok)
    IN  /\ last' = Call("get", prefix, AsMapping(data), ok, r)
        /\ store' = r.store
        /\ UNCHANGED <<redisConn, apiKeys, usage, req, expect, probe, app, hits, admitted, admin, now, instances>>

ApiSet(prefix, data, value, ttl, ok) ==
    LET r == cache_set(redisConn, store, prefix, data, value, ttl, ok)
    IN  /\ last' = [Call("set", "", {}, ok, r) EXCEPT !.ttl = ttl]
        /\ store' = r.store
        /\ expect' = IF redisConn = "client" /\ ok
                        /\ (IF ttl # 0 THEN ttl ELSE cache_ttl_seconds) > 0
                     THEN [expect EXCEPT ![<<prefix, AsMapping(data)>>] = Some(value)]
                     ELSE expect
        /\ UNCHANGED <<redisConn, apiKeys, usage, req, probe, app, hits, admitted, admin, now, instances>>

ApiDelete(prefix, data, ok) ==
    LET r == cache_delete(redisConn, store, prefix, data, ok)
    IN  /\ last' = Call("delete", "", {}, ok, r)
        /\ store' = r.store
        /\ expect' = IF redisConn = "client" /\ ok
                     THEN [expect EXCEPT ![<<prefix, AsMapping(data)>>] = None]
                     ELSE expect
        /\ UNCHANGED <<redisConn, apiKeys, usage, req, probe, app, hits, admitted, admin, now, instances>>

ApiClearPrefix(prefix, ok) ==
    LET r == clear_prefix(redisConn, store, prefix, ok)
    IN  /\ last' = Call("clear", prefix, {}, ok, r)
        /\ store' = r.store
        /\ expect' = IF redisConn = "client" /\ ok
                     THEN [p \in Pairs |-> IF p[1] = prefix THEN None ELSE expect[p]]
                     ELSE expect
        /\ UNCHANGED <<redisConn, apiKeys, usage, req, probe, app, hits, admitted, admin, now, instances>>

\* Redis drops an entry whose time-to-live has elapsed
Expire(key) ==
    /\ key \in DOMAIN store
    /\ store' = RedisDelete(store, {key})
    /\ expect' = [p \in Pairs |-> IF PairKey[p] = key THEN None ELSE expect[p]]
    /\ last' = NoCall
    /\ UNCHANGED <<redisConn, apiKeys, usage, req, probe, app, hits, admitted, admin, now, instances>>

----------------------------------------------------------------------------
(* Evaluation of _generate_key on two dicts under one namespace *)

GenerateKeys ==
    /\ ~probe.done
    /\ probe' = [probe EXCEPT !.k1 = generate_key(probe.prefix, probe.d1),
                              !.k2 = generate_key(probe.prefix, probe.d2),
                              !.done = TRUE]
    /\ UNCHANGED <<redisConn, store, apiKeys, usage, req, last, expect, app, hits, admitted, admin, now, instances>>

----------------------------------------------------------------------------
(* Credentials: app/services/api_key_service.py, app/core/auth.py *)

MaxKeys == 2                      \* credentials ever issued
KeyIds == 1..MaxKeys

\* what X-API-Key can carry: the keys generate_key can issue, and the empty string
RawKeys == { <<"ai_", "x1">>, <<"ai_", "x2">>, <<"ai_", "x3">> }
Headers == { None, Some(<<>>) } \cup { Some(k) : k \in RawKeys }

\* hash_key: the full SHA-256 hex digest of the raw key
hash_key(key) == sha256_hexdigest(key)

RawKeySeq == << <<"ai_", "x1">>, <<"ai_", "x2">>, <<"ai_", "x3">> >>

NoRow == [exists |-> FALSE, key_hash |-> <<>>, key_prefix |-> <<>>, is_active |-> FALSE,
          last_used_at |-> 0]

NoKeys == [id \in KeyIds |-> NoRow]

NewRow_whole_key_as_prefix(raw) ==
    [exists |-> TRUE, key_hash |-> hash_key(raw), key_prefix |-> raw,
     is_active |-> TRUE, last_used_at |-> 0]

\* create_api_key: the row inserted for a freshly generated raw key; key_prefix
\* is raw_key[:8], the part of the key before its random tail
NewRow(raw) == [exists |-> TRUE, key_hash |-> hash_key(raw), key_prefix |-> SubSeq(raw, 1, 1),
                is_active |-> TRUE, last_used_at |-> 0]

\* get_api_key_by_raw_key: the row whose key_hash equals the hash of the raw key (0: none)
get_api_key_by_raw_key(table, raw) ==
    IF \E id \in KeyIds : table[id].exists /\ table[id].key_hash = hash_key(raw)
    THEN CHOOSE id \in KeyIds : table[id].exists /\ table[id].key_hash = hash_key(raw)
    ELSE 0

\* update_last_used: set last_used_at and commit
update_last_used(table, id) == [table EXCEPT ![id].last_used_at = 1]

AuthError(status, detail, table) ==
    [status |-> status, detail |-> detail, key |-> 0, table |-> table]

get_api_key_any_state(table, header, dbOk) ==
    IF ~Truthy(header) THEN AuthError(401, "Missing API key", table)
    ELSE LET db_key == get_api_key_by_raw_key(table, header.val)
         IN  IF db_key = 0 THEN AuthError(401, "Invalid API key", table)
             ELSE IF ~dbOk THEN AuthError(500, "Internal server error", table)
             ELSE [status |-> 0, detail |-> "", key |-> db_key,
                   table |-> update_last_used(table, db_key)]

get_api_key_stamp_first(table, header, dbOk) ==
    IF ~Truthy(header) THEN AuthError(401, "Missing API key", table)
    ELSE LET db_key == get_api_key_by_raw_key(table, header.val)
         IN  IF db_key = 0 THEN AuthError(401, "Invalid API key", table)
             ELSE IF ~dbOk THEN AuthError(500, "Internal server error", table)
             ELSE IF ~table[db_key].is_active
                  THEN AuthError(403, "API key is inactive", update_last_used(table, db_key))
             ELSE [status |-> 0, detail |-> "", key |-> db_key,
                   table |-> update_last_used(table, db_key)]

\* get_api_key (the CurrentAPIKey dependency).  status 0: the dependency returned
\* the row.  dbOk = FALSE: the commit in update_last_used fails; the exception is
\* not handled by the dependency and ends in global_exception_handler.
get_api_key(table, header, dbOk) ==
    IF ~Truthy(header) THEN AuthError(401, "Missing API key", table)
    ELSE LET db_key == get_api_key_by_raw_key(table, header.val)
         IN  IF db_key = 0 THEN AuthError(401, "Invalid API key", table)
             ELSE IF ~table[db_key].is_active
                  THEN AuthError(403, "API key is inactive", table)
             ELSE IF ~dbOk THEN AuthError(500, "Internal server error", table)
             ELSE [status |-> 0, detail |-> "", key |-> db_key,
                   table |-> update_last_used(table, db_key)]

----------------------------------------------------------------------------
(* Usage metering: app/services/usage_service.py *)

\* a usage_records row; created_at has server_default=func.now()
UsageRow(id, endpoint, prompt, completion, total) ==
    [api_key_id |-> id, endpoint |-> endpoint, prompt_tokens |-> prompt,
     completion_tokens |-> completion, tokens_used |-> total, created_at |-> now]

record_usage_prompt_only(rows, table, id, endpoint, prompt, completion, dbOk) ==
    IF dbOk /\ table[id].exists
    THEN [raised |-> FALSE, rows |-> Append(rows, UsageRow(id, endpoint, prompt, completion, prompt))]
    ELSE [raised |-> TRUE, rows |-> rows]

record_usage_no_foreign_key(rows, table, id, endpoint, prompt, completion, dbOk) ==
    IF dbOk
    THEN [raised |-> FALSE,
          rows |-> Append(rows, UsageRow(id, endpoint, prompt, completion, prompt + completion))]
    ELSE [raised |-> TRUE, rows |-> rows]

\* record_usage: insert one row and commit.  The commit raises when the database
\* is unavailable (dbOk = FALSE) or the referenced api_keys row is gone.
record_usage(rows, table, id, endpoint, prompt, completion, dbOk) ==
    IF dbOk /\ table[id].exists
    THEN [raised |-> FALSE,
          rows |-> Append(rows, UsageRow(id, endpoint, prompt, completion, prompt + completion))]
    ELSE [raised |-> TRUE, rows |-> rows]

----------------------------------------------------------------------------
(* The AI provider and the response schemas *)

Digits == << "0", "1", "2", "3", "4", "5", "6", "7", "8", "9" >>
NumStr(n) == Digits[n + 1]
StrNum(t) == (CHOOSE i \in DOMAIN Digits : Digits[i] = t) - 1

NoResult == [kind |-> "none", text |-> "", has_usage |-> FALSE,
             prompt_tokens |-> 0, completion_tokens |-> 0]

\* a completion: its text and the usage block the provider sent, if any
Completions ==
    { [kind |-> "ok", text |-> "r1", has_usage |-> FALSE,
       prompt_tokens |-> 0, completion_tokens |-> 0],
      [kind |-> "ok", text |-> "r2", has_usage |-> TRUE,
       prompt_tokens |-> 2, completion_tokens |-> 3] }

FailureKinds == {"AuthenticationError", "RateLimitError", "APIConnectionError", "Exception"}

Failures == { [NoResult EXCEPT !.kind = k] : k \in FailureKinds }

ProviderResults == Completions \cup Failures

\* source_language is a field of TranslateResponse only ("": the schema has none)
NoResponse == [text |-> "", prompt_tokens |-> 0, completion_tokens |-> 0, total_tokens |-> 0,
               source_language |-> ""]

\* chat_completion / summarize_text / OpenAIProvider.translate on a completion:
\* the response carries the provider's counts, or zeros without a usage block
build_response(res) ==
    [text |-> res.text,
     prompt_tokens |-> IF res.has_usage THEN res.prompt_tokens ELSE 0,
     completion_tokens |-> IF res.has_usage THEN res.completion_tokens ELSE 0,
     total_tokens |-> IF res.has_usage THEN res.prompt_tokens + res.completion_tokens ELSE 0,
     source_language |-> ""]

translate_echo_source(res, source_language) ==
    [build_response(res) EXCEPT !.source_language = source_language]

\* OpenAIProvider.translate on a completion: detected_source is the requested
\* source language, or the marker "auto-detected" when that is "auto"
translate(res, source_language) ==
    [build_response(res) EXCEPT
        !.source_language = IF source_language = "auto" THEN "auto-detected"
                            ELSE source_language]

\* json.dumps(response.model_dump())
json_dumps_response(resp) ==
    << "{", resp.text, NumStr(resp.prompt_tokens), NumStr(resp.completion_tokens),
       NumStr(resp.total_tokens), resp.source_language, "}" >>

\* ChatResponse(**json.loads(cached))
json_loads_response(s) ==
    [text |-> s[2], prompt_tokens |-> StrNum(s[3]), completion_tokens |-> StrNum(s[4]),
     total_tokens |-> StrNum(s[5]), source_language |-> s[6]]

----------------------------------------------------------------------------
(* The streaming generator: OpenAIProvider.chat_stream *)

MaxChunks == 2                    \* chunks the upstream sends on one stream

\* chunk.choices[0].delta.content of a chunk: None (also a chunk without choices),
\* the empty string, or a token
Chunks == { None, Some(<<>>), Some(<<"t1">>), Some(<<"t2">>) }

\* f"data: {json.dumps(fields)}\n\n"
sse(fields) == <<"data: ", "{">> \o fields \o <<"}", "\n\n">>
token_unit(token) == sse(<<"token">> \o token)
done_unit(full_text) == sse(<<"done", "true", "full_text">> \o full_text)
error_unit(e) == sse(<<"error", e>>)

NoStream == [state |-> "none", full_content |-> <<>>, units |-> <<>>]

\* the generator before its first step: full_content = ""
chat_stream == [state |-> "open", full_content |-> <<>>, units |-> <<>>]

\* the generator create_chat_completion_stream hands to StreamingResponse
chat_completion_stream == chat_stream

chat_stream_chunk_unfiltered(g, chunk) ==
    [g EXCEPT !.full_content = @ \o chunk.val, !.units = Append(@, token_unit(chunk.val))]

\* one round of `async for chunk in stream`: a chunk with content is appended to
\* full_content and yielded; any other chunk is skipped
chat_stream_chunk(g, chunk) ==
    IF Truthy(chunk)
    THEN [g EXCEPT !.full_content = @ \o chunk.val, !.units = Append(@, token_unit(chunk.val))]
    ELSE g

\* the upstream stream is exhausted: the final unit carries full_content
chat_stream_end(g) ==
    [g EXCEPT !.units = Append(@, done_unit(g.full_content)), !.state = "completed"]

\* except OpenAIError: one error unit, then the exception is raised again
chat_stream_error(g, e) ==
    [g EXCEPT !.units = Append(@, error_unit(e)), !.state = "failed"]

----------------------------------------------------------------------------
(* The handlers create_chat_completion, create_summary, create_translation  *)
(* and create_chat_completion_stream, one step per await                    *)

CachedEndpoints == {"chat", "summarize", "translate"}
Endpoints == CachedEndpoints \cup {"stream"}
Bodies == {"q1", "q2"}
ReqIds == {1, 2}

\* request.client.host: the network origins requests come from
Origins == {"ip1", "ip2"}

\* the endpoint string given to record_usage
EndpointTag(ep) ==
    CASE ep = "chat" -> "/api/v1/chat"
      [] ep = "summarize" -> "/api/v1/summarize"
      [] ep = "translate" -> "/api/v1/translate"
      [] ep = "stream" -> "/api/v1/chat/stream"

\* the source languages a translate request names: the schema's default "auto"
\* and a language
SourceLanguages == {"auto", "en"}

\* create_translation's cache_key_data
translate_key_data(text, source_language) ==
    << <<"text", text>>, <<"source_language", source_language>>, <<"target_language", "es">> >>

\* cache_key_data, in the insertion order of the handler's dict literal (a
\* translate request that leaves source_language to its default)
cache_key_data(ep, body) ==
    CASE ep = "chat" ->
           << <<"messages", body>>, <<"model", "gpt-3.5-turbo">>,
              <<"max_tokens", "1000">>, <<"temperature", "0.7">> >>
      [] ep = "summarize" ->
           << <<"text", body>>, <<"max_length", "200">>, <<"style", "concise">> >>
      [] ep = "translate" -> translate_key_data(body, "auto")

\* the cache_key_data of a request in flight
request_key_data(q) ==
    IF q.endpoint = "translate" THEN translate_key_data(q.body, q.source_language)
    ELSE cache_key_data(q.endpoint, q.body)

\* what the handler's provider call returns for a completion
provider_response(q, res) ==
    IF q.endpoint = "translate" THEN translate(res, q.source_language)
    ELSE build_response(res)

Outcome(status, detail) == [status |-> status, detail |-> detail]

failure_mapping_busy_as_unavailable(kind) ==
    CASE kind = "AuthenticationError" -> Outcome(500, "AI service configuration error")
      [] kind = "RateLimitError" -> Outcome(503, "AI service temporarily unavailable")
      [] kind = "APIConnectionError" -> Outcome(503, "AI service temporarily unavailable")
      [] OTHER -> Outcome(500, "An unexpected error occurred")

\* the except clauses of the handlers
failure_mapping(kind) ==
    CASE kind = "AuthenticationError" -> Outcome(500, "AI service configuration error")
      [] kind = "RateLimitError" -> Outcome(429, "AI service is busy, please try again later")
      [] kind = "APIConnectionError" -> Outcome(503, "AI service temporarily unavailable")
      [] OTHER -> Outcome(500, "An unexpected error occurred")

record_outcome_best_effort(raised) == Outcome(200, "")

\* the end of the try block: record_usage raising is caught by `except Exception`
record_outcome(raised) ==
    IF raised THEN failure_mapping("Exception") ELSE Outcome(200, "")

IdleReq ==
    [pc |-> "idle", endpoint |-> "", body |-> "", source_language |-> "", header |-> None,
     origin |-> "", api_key |-> 0,
     hit |-> FALSE, provider |-> NoResult, response |-> NoResponse,
     status |-> 0, detail |-> "", upstream_calls |-> 0, faults |-> {}, usage0 |-> <<>>,
     gen |-> NoStream, arrived |-> <<>>]

Finish(r, out) == [r EXCEPT !.pc = "done", !.status = out.status, !.detail = out.detail]

\* a request reaches the application
http_request(r, ep, body, header, origin) ==
    /\ app = "serving"
    /\ req[r].pc = "idle"
    /\ Len(usage) < MaxUsage
    /\ req' = [req EXCEPT ![r] = [IdleReq EXCEPT !.pc = "auth", !.endpoint = ep,
                                     !.body = body, !.header = header, !.origin = origin,
                                     !.source_language =
                                         IF ep = "translate" THEN "auto" ELSE "",
                                     !.usage0 = usage]]
    /\ UNCHANGED <<redisConn, store, apiKeys, usage, last, expect, probe, app, hits, admitted, admin, now, instances>>

\* a translate request that names its source language reaches the application
translate_request(r, text, source_language, header, origin) ==
    /\ app = "serving"
    /\ req[r].pc = "idle"
    /\ Len(usage) < MaxUsage
    /\ req' = [req EXCEPT ![r] = [IdleReq EXCEPT !.pc = "auth", !.endpoint = "translate",
                                     !.body = text, !.header = header, !.origin = origin,
                                     !.source_language = source_language,
                                     !.usage0 = usage]]
    /\ UNCHANGED <<redisConn, store, apiKeys, usage, last, expect, probe, app, hits, admitted, admin, now, instances>>

\* the CurrentAPIKey dependency runs before the handler body
authenticate(r, dbOk) ==
    /\ req[r].pc = "auth"
    /\ LET a == get_api_key(apiKeys, req[r].header, dbOk)
       IN  /\ apiKeys' = a.table
           /\ req' = [req EXCEPT ![r] =
                  IF a.status # 0
                  THEN Finish([req[r] EXCEPT !.faults = @ \cup (IF a.status = 500 THEN {"db"} ELSE {})],
                              Outcome(a.status, a.detail))
                  ELSE [req[r] EXCEPT !.api_key = a.key, !.pc = "limit"]]
    /\ UNCHANGED <<redisConn, store, usage, last, expect, probe, app, hits, admitted, admin, now, instances>>

\* Limiter(key_func=get_remote_address): the storage key of a request
get_remote_address(q) == q.origin

NoHits == [k \in Origins |-> 0]
NoneAdmitted == [id \in KeyIds |-> 0]

\* @limiter.limit(get_rate_limit()): the wrapper runs once the dependencies are
\* resolved and before the handler body.  Over the limit the request ends in
\* RateLimitExceeded (429); the counter is kept at the limit, beyond which its
\* value makes no difference.
rate_limit(r) ==
    /\ req[r].pc = "limit"
    /\ LET k == get_remote_address(req[r])
       IN  IF hits[k] >= rate_limit_per_minute
           THEN /\ req' = [req EXCEPT ![r] = Finish(req[r], Outcome(429, "Rate limit exceeded"))]
                /\ UNCHANGED <<hits, admitted>>
           ELSE /\ hits' = [hits EXCEPT ![k] = @ + 1]
                /\ admitted' = [admitted EXCEPT ![req[r].api_key] = @ + 1]
                /\ req' = [req EXCEPT ![r].pc =
                              IF req[r].endpoint = "stream" THEN "stream" ELSE "lookup"]
    /\ UNCHANGED <<redisConn, store, apiKeys, usage, last, expect, probe, app, admin, now, instances>>

\* the one-minute window of the limiter runs out: the counters start again
window_elapsed ==
    /\ hits # NoHits
    /\ hits' = NoHits
    /\ admitted' = NoneAdmitted
    /\ UNCHANGED <<redisConn, store, apiKeys, usage, req, last, expect, probe, app, admin, now, instances>>

cache_lookup_metered(r, ok) ==
    /\ req[r].pc = "lookup"
    /\ LET c == cache_get(redisConn, store, req[r].endpoint,
                          request_key_data(req[r]), ok)
           f == IF redisConn = "none" \/ ~ok THEN {"cache"} ELSE {}
           q == [req[r] EXCEPT !.faults = @ \cup f]
       IN  /\ req' = [req EXCEPT ![r] =
                  IF c.raised THEN Finish(q, Outcome(500, "Internal server error"))
                  ELSE IF Truthy(c.result)
                       THEN Finish([q EXCEPT !.hit = TRUE,
                                             !.response = json_loads_response(c.result.val)],
                                   Outcome(200, ""))
                  ELSE [q EXCEPT !.pc = "upstream"]]
           /\ usage' = IF ~c.raised /\ Truthy(c.result)
                       THEN record_usage(usage, apiKeys, req[r].api_key,
                                         EndpointTag(req[r].endpoint), 0, 0, TRUE).rows
                       ELSE usage
    /\ UNCHANGED <<redisConn, store, apiKeys, last, expect, probe, app, hits, admitted, admin, now, instances>>

cache_lookup_per_caller(r, ok) ==
    /\ req[r].pc = "lookup"
    /\ LET c == cache_get(redisConn, store, NumStr(req[r].api_key),
                          request_key_data(req[r]), ok)
           f == IF redisConn = "none" \/ ~ok THEN {"cache"} ELSE {}
           q == [req[r] EXCEPT !.faults = @ \cup f]
       IN  req' = [req EXCEPT ![r] =
               IF Truthy(c.result)
               THEN Finish([q EXCEPT !.hit = TRUE,
                                     !.response = json_loads_response(c.result.val)],
                           Outcome(200, ""))
               ELSE [q EXCEPT !.pc = "upstream"]]
    /\ UNCHANGED <<redisConn, store, apiKeys, usage, last, expect, probe, app, hits, admitted, admin, now, instances>>

\* cached = await cache_service.get(...); a hit returns the cached response
cache_lookup(r, ok) ==
    /\ req[r].pc = "lookup"
    /\ LET c == cache_get(redisConn, store, req[r].endpoint,
                          request_key_data(req[r]), ok)
           f == IF redisConn = "none" \/ ~ok THEN {"cache"} ELSE {}
           q == [req[r] EXCEPT !.faults = @ \cup f]
       IN  req' = [req EXCEPT ![r] =
               IF c.raised THEN Finish(q, Outcome(500, "Internal server error"))
               ELSE IF Truthy(c.result)
                    THEN Finish([q EXCEPT !.hit = TRUE,
                                          !.response = json_loads_response(c.result.val)],
                                Outcome(200, ""))
               ELSE [q EXCEPT !.pc = "upstream"]]
    /\ UNCHANGED <<redisConn, store, apiKeys, usage, last, expect, probe, app, hits, admitted, admin, now, instances>>

upstream_call_metering_failures(r, res) ==
    /\ req[r].pc = "upstream"
    /\ LET q == [req[r] EXCEPT !.provider = res, !.upstream_calls = @ + 1]
       IN  /\ req' = [req EXCEPT ![r] =
                  IF res.kind = "ok"
                  THEN [q EXCEPT !.pc = "store", !.response = provider_response(q, res)]
                  ELSE Finish(q, failure_mapping(res.kind))]
           /\ usage' = IF res.kind = "ok" THEN usage
                       ELSE record_usage(usage, apiKeys, req[r].api_key,
                                         EndpointTag(req[r].endpoint), 0, 0, TRUE).rows
    /\ UNCHANGED <<redisConn, store, apiKeys, last, expect, probe, app, hits, admitted, admin, now, instances>>

\* response = await chat_completion(...) and the except clauses
upstream_call(r, res) ==
    /\ req[r].pc = "upstream"
    /\ LET q == [req[r] EXCEPT !.provider = res, !.upstream_calls = @ + 1]
       IN  req' = [req EXCEPT ![r] =
               IF res.kind = "ok"
               THEN [q EXCEPT !.pc = "store", !.response = provider_response(q, res)]
               ELSE Finish(q, failure_mapping(res.kind))]
    /\ UNCHANGED <<redisConn, store, apiKeys, usage, last, expect, probe, app, hits, admitted, admin, now, instances>>

\* await cache_service.set(...), inside the try block
cache_store(r, ok) ==
    /\ req[r].pc = "store"
    /\ LET c == cache_set(redisConn, store, req[r].endpoint,
                          request_key_data(req[r]),
                          json_dumps_response(req[r].response), 0, ok)
           f == IF redisConn = "none" \/ ~ok THEN {"cache"} ELSE {}
           q == [req[r] EXCEPT !.faults = @ \cup f]
       IN  /\ store' = c.store
           /\ req' = [req EXCEPT ![r] =
                  IF c.raised THEN Finish(q, failure_mapping("Exception"))
                  ELSE [q EXCEPT !.pc = "record"]]
    /\ UNCHANGED <<redisConn, apiKeys, usage, last, expect, probe, app, hits, admitted, admin, now, instances>>

\* await record_usage(...) and return response
record_step(r, dbOk) ==
    /\ req[r].pc = "record"
    /\ LET u == record_usage(usage, apiKeys, req[r].api_key, EndpointTag(req[r].endpoint),
                             req[r].response.prompt_tokens,
                             req[r].response.completion_tokens, dbOk)
           q == [req[r] EXCEPT !.faults = @ \cup (IF u.raised THEN {"db"} ELSE {})]
       IN  /\ usage' = u.rows
           /\ req' = [req EXCEPT ![r] = Finish(q, record_outcome(u.raised))]
    /\ UNCHANGED <<redisConn, store, apiKeys, last, expect, probe, app, hits, admitted, admin, now, instances>>

stream_record_cached(r, dbOk) ==
    /\ req[r].pc = "stream"
    /\ LET c == cache_get(redisConn, store, "chat", cache_key_data("chat", req[r].body), TRUE)
           u == record_usage(usage, apiKeys, req[r].api_key, EndpointTag("stream"), 0, 0, dbOk)
           q == [req[r] EXCEPT !.faults = @ \cup (IF u.raised THEN {"db"} ELSE {})]
       IN  /\ usage' = u.rows
           /\ req' = [req EXCEPT ![r] =
                  IF u.raised THEN Finish(q, Outcome(500, "Internal server error"))
                  ELSE IF Truthy(c.result)
                       THEN Finish([q EXCEPT !.hit = TRUE,
                                             !.response = json_loads_response(c.result.val)],
                                   Outcome(200, ""))
                  ELSE [q EXCEPT !.pc = "streaming", !.status = 200,
                                 !.gen = chat_completion_stream]]
    /\ UNCHANGED <<redisConn, store, apiKeys, last, expect, probe, app, hits, admitted, admin, now, instances>>

\* create_chat_completion_stream: record_usage with zero counts, outside any try,
\* then the StreamingResponse is returned: the status line (200) goes out and the
\* generator starts.  record_usage raising ends in global_exception_handler.
stream_record(r, dbOk) ==
    /\ req[r].pc = "stream"
    /\ LET u == record_usage(usage, apiKeys, req[r].api_key, EndpointTag("stream"), 0, 0, dbOk)
           q == [req[r] EXCEPT !.faults = @ \cup (IF u.raised THEN {"db"} ELSE {})]
       IN  /\ usage' = u.rows
           /\ req' = [req EXCEPT ![r] =
                  IF u.raised THEN Finish(q, Outcome(500, "Internal server error"))
                  ELSE [q EXCEPT !.pc = "streaming", !.status = 200,
                                 !.gen = chat_completion_stream]]
    /\ UNCHANGED <<redisConn, store, apiKeys, last, expect, probe, app, hits, admitted, admin, now, instances>>

\* a chunk arrives from the upstream stream
stream_chunk(r, chunk) ==
    /\ req[r].pc = "streaming"
    /\ Len(req[r].arrived) < MaxChunks
    /\ req' = [req EXCEPT ![r].gen = chat_stream_chunk(@, chunk),
                          ![r].arrived = Append(@, chunk)]
    /\ UNCHANGED <<redisConn, store, apiKeys, usage, last, expect, probe, app, hits, admitted, admin, now, instances>>

stream_end_reconciled(r) ==
    /\ req[r].pc = "streaming"
    /\ req' = [req EXCEPT ![r].gen = chat_stream_end(@), ![r].pc = "done"]
    /\ usage' = [i \in DOMAIN usage |->
                    IF i = Len(usage)
                    THEN [usage[i] EXCEPT !.completion_tokens = Len(req[r].gen.full_content),
                                          !.tokens_used = Len(req[r].gen.full_content)]
                    ELSE usage[i]]
    /\ UNCHANGED <<redisConn, store, apiKeys, last, expect, probe, app, hits, admitted, admin, now, instances>>

\* the upstream stream ends: the final unit is sent and the response is complete
stream_end(r) ==
    /\ req[r].pc = "streaming"
    /\ req' = [req EXCEPT ![r].gen = chat_stream_end(@), ![r].pc = "done"]
    /\ UNCHANGED <<redisConn, store, apiKeys, usage, last, expect, probe, app, hits, admitted, admin, now, instances>>

\* the upstream call or the iteration raises OpenAIError
stream_error(r) ==
    /\ req[r].pc = "streaming"
    /\ req' = [req EXCEPT ![r].gen = chat_stream_error(@, "e"), ![r].pc = "done"]
    /\ UNCHANGED <<redisConn, store, apiKeys, usage, last, expect, probe, app, hits, admitted, admin, now, instances>>

\* the caller goes away: the generator is closed where it stands
client_disconnect(r) ==
    /\ req[r].pc = "streaming"
    /\ req' = [req EXCEPT ![r].gen.state = "abandoned", ![r].pc = "done"]
    /\ UNCHANGED <<redisConn, store, apiKeys, usage, last, expect, probe, app, hits, admitted, admin, now, instances>>

\* the response has been sent; the slot can take the next request
response_sent(r) ==
    /\ req[r].pc = "done"
    /\ req' = [req EXCEPT ![r] = IdleReq]
    /\ UNCHANGED <<redisConn, store, apiKeys, usage, last, expect, probe, app, hits, admitted, admin, now, instances>>

lifespan_startup_strict(ok) ==
    /\ app = "starting"
    /\ app' = IF ok THEN "serving" ELSE "stopped"
    /\ redisConn' = IF ok THEN "client" ELSE "none"
    /\ UNCHANGED <<store, apiKeys, usage, req, last, expect, probe, hits, admitted, admin, now, instances>>

\* lifespan, before yield: cache_service.connect(), which swallows a failed connect
lifespan_startup(ok) ==
    /\ app = "starting"
    /\ app' = "serving"
    /\ redisConn' = IF ok THEN "client" ELSE "none"
    /\ UNCHANGED <<store, apiKeys, usage, req, last, expect, probe, hits, admitted, admin, now, instances>>

\* lifespan, after yield: cache_service.disconnect() once no request is in flight
lifespan_shutdown ==
    /\ app = "serving"
    /\ \A r \in ReqIds : req[r].pc = "idle"
    /\ app' = "stopped"
    /\ UNCHANGED <<redisConn, store, apiKeys, usage, req, last, expect, probe, hits, admitted, admin, now, instances>>

\* CacheService.is_connected
is_connected(conn) == conn # "none"

\* GET /health: {"status": "healthy", "cache": cache_service.is_connected}
health_check ==
    /\ app = "serving"
    /\ last' = [NoCall EXCEPT !.op = "health", !.conn = redisConn,
                   !.result = Some(<<"healthy", IF is_connected(redisConn) THEN "true" ELSE "false">>)]
    /\ UNCHANGED <<redisConn, store, apiKeys, usage, req, expect, probe, app, hits, admitted, admin, now, instances>>

----------------------------------------------------------------------------
(* Key administration: app/api/v1/api_keys.py *)

\* a response: the operation and path id it answers, its status, its figures, and
\* the credentials in its body (items; for the other endpoints it is empty)
NoSummary == [total_requests |-> 0, total_tokens |-> 0, total_prompt_tokens |-> 0,
              total_completion_tokens |-> 0, period_start |-> 0, period_end |-> 0]

NoAdmin == [op |-> "none", id |-> 0, status |-> 0, count |-> 0, items |-> <<>>,
            summary |-> NoSummary]
AdminResponse(op, id, status, count) ==
    [op |-> op, id |-> id, status |-> status, count |-> count, items |-> <<>>,
     summary |-> NoSummary]

\* response_model=APIKeyResponse: the fields of the row the schema has; it has no
\* key field (key = None) and no key_hash
APIKeyResponse(id, row) ==
    [id |-> id, key_prefix |-> row.key_prefix, is_active |-> row.is_active, key |-> None]

\* APIKeyCreated(..., key=raw_key, ...): the one schema with the full key
APIKeyCreated(id, row, raw_key) == [APIKeyResponse(id, row) EXCEPT !.key = Some(raw_key)]

\* get_api_key_by_id: the row with that id (0: None)
get_api_key_by_id(table, id) == IF table[id].exists THEN id ELSE 0

\* the usage rows of one credential, in insertion order
RowsOf(rows, id) == SelectSeq(rows, LAMBDA u : u.api_key_id = id)

\* POST /api-keys: the next id gets the next generated key
create_api_key(id) ==
    /\ app = "serving"
    /\ ~apiKeys[id].exists
    /\ apiKeys[id].key_hash = <<>>
    /\ \A j \in KeyIds : j < id => apiKeys[j].key_hash # <<>>
    /\ apiKeys' = [apiKeys EXCEPT ![id] = NewRow(RawKeySeq[id])]
    /\ admin' = [AdminResponse("create", id, 201, 0) EXCEPT
                    !.items = << APIKeyCreated(id, NewRow(RawKeySeq[id]), RawKeySeq[id]) >>]
    /\ UNCHANGED <<redisConn, store, usage, req, last, expect, probe, app, hits, admitted, now, instances>>

\* GET /api-keys/{id}
get_api_key_endpoint(id) ==
    /\ app = "serving"
    /\ admin' = IF get_api_key_by_id(apiKeys, id) = 0
                THEN AdminResponse("get", id, 404, 0)
                ELSE [AdminResponse("get", id, 200, 0) EXCEPT
                         !.items = << APIKeyResponse(id, apiKeys[id]) >>]
    /\ UNCHANGED <<redisConn, store, apiKeys, usage, req, last, expect, probe, app, hits, admitted, now, instances>>

\* the rows a query over api_keys yields, newest first (ids are issued in order)
RECURSIVE RowsDesc(_, _, _)
RowsDesc(table, id, active_only) ==
    IF id = 0 THEN <<>>
    ELSE (IF table[id].exists /\ (~active_only \/ table[id].is_active)
          THEN << APIKeyResponse(id, table[id]) >> ELSE <<>>)
         \o RowsDesc(table, id - 1, active_only)

\* GET /api-keys: every row (or every active row), through APIKeyResponse
list_api_keys(active_only) ==
    /\ app = "serving"
    /\ admin' = [AdminResponse("list", 0, 200, 0) EXCEPT
                    !.items = RowsDesc(apiKeys, MaxKeys, active_only)]
    /\ UNCHANGED <<redisConn, store, apiKeys, usage, req, last, expect, probe, app, hits, admitted, now, instances>>

update_api_key_purging(id, active) ==
    /\ app = "serving"
    /\ IF get_api_key_by_id(apiKeys, id) = 0
       THEN /\ admin' = AdminResponse("update", id, 404, 0)
            /\ UNCHANGED <<apiKeys, usage>>
       ELSE /\ apiKeys' = [apiKeys EXCEPT ![id].is_active = active]
            /\ usage' = IF active THEN usage
                        ELSE SelectSeq(usage, LAMBDA u : u.api_key_id # id)
            /\ admin' = AdminResponse("update", id, 200, 0)
    /\ UNCHANGED <<redisConn, store, req, last, expect, probe, app, hits, admitted, now, instances>>

\* PATCH /api-keys/{id} with is_active
update_api_key(id, active) ==
    /\ app = "serving"
    /\ IF get_api_key_by_id(apiKeys, id) = 0
       THEN /\ admin' = AdminResponse("update", id, 404, 0)
            /\ UNCHANGED apiKeys
       ELSE /\ apiKeys' = [apiKeys EXCEPT ![id].is_active = active]
            /\ admin' = [AdminResponse("update", id, 200, 0) EXCEPT
                            !.items = << APIKeyResponse(id, apiKeys'[id]) >>]
    /\ UNCHANGED <<redisConn, store, usage, req, last, expect, probe, app, hits, admitted, now, instances>>

delete_api_key_no_cascade(id) ==
    /\ app = "serving"
    /\ IF get_api_key_by_id(apiKeys, id) = 0
       THEN /\ admin' = AdminResponse("delete", id, 404, 0)
            /\ UNCHANGED <<apiKeys, usage>>
       ELSE /\ apiKeys' = [apiKeys EXCEPT ![id].exists = FALSE, ![id].is_active = FALSE,
                                          ![id].last_used_at = 0]
            /\ usage' = usage
            /\ admin' = AdminResponse("delete", id, 204, 0)
    /\ UNCHANGED <<redisConn, store, req, last, expect, probe, app, hits, admitted, now, instances>>

\* DELETE /api-keys/{id}: the row goes, and its usage rows with it (cascade).
\* The deleted row keeps its hash in the model only to mark the id as used up.
delete_api_key(id) ==
    /\ app = "serving"
    /\ IF get_api_key_by_id(apiKeys, id) = 0
       THEN /\ admin' = AdminResponse("delete", id, 404, 0)
            /\ UNCHANGED <<apiKeys, usage>>
       ELSE /\ apiKeys' = [apiKeys EXCEPT ![id].exists = FALSE, ![id].is_active = FALSE,
                                          ![id].last_used_at = 0]
            /\ usage' = SelectSeq(usage, LAMBDA u : u.api_key_id # id)
            /\ admin' = AdminResponse("delete", id, 204, 0)
    /\ UNCHANGED <<redisConn, store, req, last, expect, probe, app, hits, admitted, now, instances>>

\* GET /usage/{id}: 404 unless the key exists, else its records
get_usage_records(id) ==
    /\ app = "serving"
    /\ admin' = IF get_api_key_by_id(apiKeys, id) = 0
                THEN AdminResponse("usage", id, 404, 0)
                ELSE AdminResponse("usage", id, 200, Len(RowsOf(usage, id)))
    /\ UNCHANGED <<redisConn, store, apiKeys, usage, req, last, expect, probe, app, hits, admitted, now, instances>>

\* func.sum over a column of the selected rows
RECURSIVE SumColumn(_, _)
SumColumn(rows, column) ==
    IF rows = <<>> THEN 0 ELSE Head(rows)[column] + SumColumn(Tail(rows), column)

usage_summary_all_time(rows, id, days, at) ==
    LET selected == SelectSeq(rows, LAMBDA u : u.api_key_id = id)
    IN  [total_requests |-> Len(selected),
         total_tokens |-> SumColumn(selected, "tokens_used"),
         total_prompt_tokens |-> SumColumn(selected, "prompt_tokens"),
         total_completion_tokens |-> SumColumn(selected, "completion_tokens"),
         period_start |-> at - days, period_end |-> at]

\* usage_service.get_usage_summary: count and coalesce(sum, 0) over the rows of
\* the key with created_at >= now - days
usage_summary(rows, id, days, at) ==
    LET period_start == at - days
        selected == SelectSeq(rows, LAMBDA u : u.api_key_id = id
                                               /\ u.created_at >= period_start)
    IN  [total_requests |-> Len(selected),
         total_tokens |-> SumColumn(selected, "tokens_used"),
         total_prompt_tokens |-> SumColumn(selected, "prompt_tokens"),
         total_completion_tokens |-> SumColumn(selected, "completion_tokens"),
         period_start |-> period_start, period_end |-> at]

\* the values of the days query parameter the scenarios use (ge=1, le=365)
Days == {1, 2}

\* GET /usage/{id}/summary: 404 unless the key exists, else the totals
get_usage_summary(id, days) ==
    /\ app = "serving"
    /\ admin' = IF get_api_key_by_id(apiKeys, id) = 0
                THEN AdminResponse("summary", id, 404, 0)
                ELSE LET sm == usage_summary(usage, id, days, now)
                     IN  [AdminResponse("summary", id, 200, sm.total_requests)
                             EXCEPT !.summary = sm]
    /\ UNCHANGED <<redisConn, store, apiKeys, usage, req, last, expect, probe, app, hits, admitted, now, instances>>

----------------------------------------------------------------------------
(* Specifications *)

InitState ==
    /\ redisConn = "none"
    /\ store = EmptyStore
    /\ usage = <<>>
    /\ req = [r \in ReqIds |-> IdleReq]
    /\ last = NoCall
    /\ expect = [p \in Pairs |-> None]
    /\ app = "starting"
    /\ hits = NoHits
    /\ admitted = NoneAdmitted
    /\ admin = NoAdmin
    /\ now = 0
    /\ instances = NoInstances

\* The gateway serving one request after another for one issued credential
Init ==
    /\ InitState
    /\ apiKeys = [NoKeys EXCEPT ![1] = NewRow(RawKeySeq[1])]
    /\ probe = NoProbe

\* the request shapes of the serving scenario: (endpoint, body)
Shapes == { <<"chat", "q1">>, <<"chat", "q2">>, <<"summarize", "q1">>, <<"translate", "q1">> }

Next ==
    \/ \E ok \in BOOLEAN : lifespan_startup(ok)
    \/ \E s \in Shapes, h \in {None, Some(RawKeySeq[1])} :
          hits["ip1"] < MaxBurst /\ http_request(1, s[1], s[2], h, "ip1")
    \/ \E dbOk \in BOOLEAN : authenticate(1, dbOk)
    \/ rate_limit(1)
    \/ window_elapsed
    \/ \E ok \in BOOLEAN : cache_lookup(1, ok)
    \/ \E res \in ProviderResults : upstream_call(1, res)
    \/ \E ok \in BOOLEAN : cache_store(1, ok)
    \/ \E dbOk \in BOOLEAN : record_step(1, dbOk)
    \/ response_sent(1)
    \/ \E key \in DOMAIN store : Expire(key)

Spec == Init /\ [][Next]_vars

\* Authentication against a changing credential table; Redis and the provider
\* are both unreachable, so no request gets past the upstream call
InitAuth ==
    /\ InitState
    /\ apiKeys = NoKeys
    /\ probe = NoProbe

NextAuth ==
    \/ lifespan_startup(FALSE)
    \/ \E ep \in Endpoints, h \in Headers :
          hits["ip1"] < MaxBurst /\ http_request(1, ep, "q1", h, "ip1")
    \/ \E dbOk \in BOOLEAN : authenticate(1, dbOk)
    \/ rate_limit(1)
    \/ window_elapsed
    \/ cache_lookup(1, TRUE)
    \/ upstream_call(1, [NoResult EXCEPT !.kind = "APIConnectionError"])
    \/ \E dbOk \in BOOLEAN : stream_record(1, dbOk)
    \/ stream_error(1)
    \/ response_sent(1)
    \/ \E id \in KeyIds : create_api_key(id)
    \/ \E id \in KeyIds, active \in BOOLEAN : update_api_key(id, active)
    \/ \E id \in KeyIds : delete_api_key(id)

SpecAuth == InitAuth /\ [][NextAuth]_vars

\* CacheService called directly
InitCache ==
    /\ InitState
    /\ apiKeys = NoKeys
    /\ probe = NoProbe

NextCache ==
    \/ \E ok \in BOOLEAN : connect(ok)
    \/ disconnect
    \/ \E ns \in ApiNamespaces, d \in CacheData, ok \in BOOLEAN : ApiGet(ns, d, ok)
    \/ \E ns \in ApiNamespaces, d \in CacheData, v \in CacheValues, t \in CacheTtls,
          ok \in BOOLEAN : ApiSet(ns, d, v, t, ok)
    \/ \E ns \in ApiNamespaces, d \in CacheData, ok \in BOOLEAN : ApiDelete(ns, d, ok)
    \/ \E ns \in ApiNamespaces, ok \in BOOLEAN : ApiClearPrefix(ns, ok)
    \/ \E key \in DOMAIN store : Expire(key)

SpecCache == InitCache /\ [][NextCache]_vars

\* CacheService.set called with every kind of ttl
InitTtl ==
    /\ InitState
    /\ apiKeys = NoKeys
    /\ probe = NoProbe

NextTtl ==
    \/ \E ok \in BOOLEAN : connect(ok)
    \/ \E d \in CacheData, v \in {<<"q1">>, <<"q2">>}, t \in TtlValues, ok \in BOOLEAN :
          ApiSet("test", d, v, t, ok)
    \/ \E key \in DOMAIN store : Expire(key)

SpecTtl == InitTtl /\ [][NextTtl]_vars

\* CacheService objects constructed and connected next to the module-level one
InitInstances ==
    /\ InitState
    /\ apiKeys = NoKeys
    /\ probe = NoProbe

NextInstances ==
    \/ CacheService_new
    \/ \E h \in 1..MaxInstances, ok \in BOOLEAN : holder_connect(h, ok)
    \/ \E ok \in BOOLEAN : connect(ok)
    \/ disconnect

SpecInstances == InitInstances /\ [][NextInstances]_vars

\* the dicts _generate_key is evaluated on: the test dicts and the handlers' key data
KeyData ==
    ApiData \cup { cache_key_data(ep, b) : ep \in CachedEndpoints, b \in Bodies }
            \cup { translate_key_data(b, sl) : b \in Bodies, sl \in SourceLanguages }

\* _generate_key on every pair of dicts
InitKey ==
    /\ InitState
    /\ apiKeys = NoKeys
    /\ probe \in { [NoProbe EXCEPT !.prefix = ns, !.d1 = a, !.d2 = b] :
                     ns \in ApiNamespaces, a \in KeyData, b \in KeyData }

NextKey == GenerateKeys

SpecKey == InitKey /\ [][NextKey]_vars

\* One process lifetime: start-up with Redis reachable or not, health checks and
\* chat requests, shutdown.  Redis may hold an entry written by an earlier process.
EarlierEntry ==
    RedisSet(EmptyStore, generate_key("chat", cache_key_data("chat", "q1")),
             json_dumps_response(build_response(CHOOSE c \in Completions : c.has_usage)),
             cache_ttl_seconds)

InitLife ==
    /\ redisConn = "none"
    /\ store \in {EmptyStore, EarlierEntry}
    /\ usage = <<>>
    /\ req = [r \in ReqIds |-> IdleReq]
    /\ last = NoCall
    /\ expect = [p \in Pairs |-> None]
    /\ app = "starting"
    /\ hits = NoHits
    /\ admitted = NoneAdmitted
    /\ admin = NoAdmin
    /\ now = 0
    /\ instances = NoInstances
    /\ apiKeys = [NoKeys EXCEPT ![1] = NewRow(RawKeySeq[1])]
    /\ probe = NoProbe

NextLife ==
    \/ \E ok \in BOOLEAN : lifespan_startup(ok)
    \/ lifespan_shutdown
    \/ health_check
    \/ hits["ip1"] < MaxBurst /\ http_request(1, "chat", "q1", Some(RawKeySeq[1]), "ip1")
    \/ authenticate(1, TRUE)
    \/ rate_limit(1)
    \/ window_elapsed
    \/ cache_lookup(1, TRUE)
    \/ \E res \in Completions : upstream_call(1, res)
    \/ cache_store(1, TRUE)
    \/ record_step(1, TRUE)
    \/ response_sent(1)
    \/ \E key \in DOMAIN store : Expire(key)

SpecLife == InitLife /\ [][NextLife]_vars

\* Two callers, each with its own credential and origin, sending chat requests
\* that overlap in time; Redis is up and entries stay live
SlotOrigin == [r \in ReqIds |-> IF r = 1 THEN "ip1" ELSE "ip2"]

InitShare ==
    /\ InitState
    /\ apiKeys = [id \in KeyIds |-> NewRow(RawKeySeq[id])]
    /\ probe = NoProbe

NextShare ==
    \/ lifespan_startup(TRUE)
    \/ \E r \in ReqIds, b \in Bodies :
          hits[SlotOrigin[r]] < MaxBurst
          /\ http_request(r, "chat", b, Some(RawKeySeq[r]), SlotOrigin[r])
    \/ \E r \in ReqIds : authenticate(r, TRUE)
    \/ \E r \in ReqIds : rate_limit(r)
    \/ window_elapsed
    \/ \E r \in ReqIds : cache_lookup(r, TRUE)
    \/ \E r \in ReqIds, res \in Completions : upstream_call(r, res)
    \/ \E r \in ReqIds : cache_store(r, TRUE)
    \/ \E r \in ReqIds : record_step(r, TRUE)
    \/ \E r \in ReqIds : response_sent(r)

SpecShare == InitShare /\ [][NextShare]_vars

\* The limiter under load: two credentials, two origins, any number of requests
\* per window; Redis, the provider and the usage table are all down, so every
\* admitted request ends right after the limiter
InitLimit ==
    /\ InitState
    /\ apiKeys = [id \in KeyIds |-> NewRow(RawKeySeq[id])]
    /\ probe = NoProbe

NextLimit ==
    \/ lifespan_startup(FALSE)
    \/ \E ep \in Endpoints, id \in {1, 2}, o \in Origins :
          http_request(1, ep, "q1", Some(RawKeySeq[id]), o)
    \/ authenticate(1, TRUE)
    \/ rate_limit(1)
    \/ window_elapsed
    \/ cache_lookup(1, TRUE)
    \/ upstream_call(1, [NoResult EXCEPT !.kind = "APIConnectionError"])
    \/ stream_record(1, FALSE)
    \/ response_sent(1)

SpecLimit == InitLimit /\ [][NextLimit]_vars

\* Chat and streaming chat requests for the same messages, one after another,
\* with Redis up
InitStream ==
    /\ InitState
    /\ apiKeys = [NoKeys EXCEPT ![1] = NewRow(RawKeySeq[1])]
    /\ probe = NoProbe

NextStream ==
    \/ lifespan_startup(TRUE)
    \/ \E ep \in {"chat", "stream"} :
          hits["ip1"] < MaxBurst /\ http_request(1, ep, "q1", Some(RawKeySeq[1]), "ip1")
    \/ authenticate(1, TRUE)
    \/ rate_limit(1)
    \/ window_elapsed
    \/ cache_lookup(1, TRUE)
    \/ \E res \in Completions : upstream_call(1, res)
    \/ cache_store(1, TRUE)
    \/ record_step(1, TRUE)
    \/ \E dbOk \in BOOLEAN : stream_record(1, dbOk)
    \/ \E chunk \in Chunks : stream_chunk(1, chunk)
    \/ stream_end(1)
    \/ stream_error(1)
    \/ client_disconnect(1)
    \/ response_sent(1)
    \/ \E key \in DOMAIN store : Expire(key)

SpecStream == InitStream /\ [][NextStream]_vars

\* Key administration and usage queries while requests of two credentials are
\* served; Redis is down, the provider answers
InitAdmin ==
    /\ InitState
    /\ apiKeys = NoKeys
    /\ probe = NoProbe

NextAdmin ==
    \/ lifespan_startup(FALSE)
    \/ \E ep \in {"chat", "stream"}, id \in KeyIds :
          hits["ip1"] < MaxBurst /\ http_request(1, ep, "q1", Some(RawKeySeq[id]), "ip1")
    \/ authenticate(1, TRUE)
    \/ rate_limit(1)
    \/ window_elapsed
    \/ cache_lookup(1, TRUE)
    \/ upstream_call(1, CHOOSE c \in Completions : c.has_usage)
    \/ cache_store(1, TRUE)
    \/ record_step(1, TRUE)
    \/ stream_record(1, TRUE)
    \/ stream_end(1)
    \/ response_sent(1)
    \/ \E id \in KeyIds : create_api_key(id)
    \/ \E id \in KeyIds : get_api_key_endpoint(id)
    \/ \E active_only \in BOOLEAN : list_api_keys(active_only)
    \/ \E id \in KeyIds, active \in BOOLEAN : update_api_key(id, active)
    \/ \E id \in KeyIds : delete_api_key(id)
    \/ \E id \in KeyIds : get_usage_records(id)
    \/ \E id \in KeyIds : get_usage_summary(id, 1)

SpecAdmin == InitAdmin /\ [][NextAdmin]_vars

\* Usage queries over time: two credentials send chat requests as the days pass
\* and their summaries are read; Redis is down
MaxClock == 2                     \* days the clock runs

\* a day passes
tick ==
    /\ now < MaxClock
    /\ now' = now + 1
    /\ UNCHANGED <<redisConn, store, apiKeys, usage, req, last, expect, probe, app, hits, admitted, admin,
                   instances>>

InitUsage ==
    /\ InitState
    /\ apiKeys = [id \in KeyIds |-> NewRow(RawKeySeq[id])]
    /\ probe = NoProbe

NextUsage ==
    \/ lifespan_startup(FALSE)
    \/ \E id \in KeyIds :
          hits["ip1"] < MaxBurst /\ http_request(1, "chat", "q1", Some(RawKeySeq[id]), "ip1")
    \/ authenticate(1, TRUE)
    \/ rate_limit(1)
    \/ window_elapsed
    \/ cache_lookup(1, TRUE)
    \/ \E res \in Completions : upstream_call(1, res)
    \/ cache_store(1, TRUE)
    \/ record_step(1, TRUE)
    \/ response_sent(1)
    \/ tick
    \/ \E id \in KeyIds, days \in Days : get_usage_summary(id, days)

SpecUsage == InitUsage /\ [][NextUsage]_vars

\* Translate requests that name a source language or leave it to detection,
\* one after another, with Redis up or down
InitTranslate ==
    /\ InitState
    /\ apiKeys = [NoKeys EXCEPT ![1] = NewRow(RawKeySeq[1])]
    /\ probe = NoProbe

NextTranslate ==
    \/ \E ok \in BOOLEAN : lifespan_startup(ok)
    \/ \E text \in Bodies, sl \in SourceLanguages :
          hits["ip1"] < MaxBurst /\ translate_request(1, text, sl, Some(RawKeySeq[1]), "ip1")
    \/ authenticate(1, TRUE)
    \/ rate_limit(1)
    \/ window_elapsed
    \/ \E ok \in BOOLEAN : cache_lookup(1, ok)
    \/ \E res \in ProviderResults : upstream_call(1, res)
    \/ \E ok \in BOOLEAN : cache_store(1, ok)
    \/ record_step(1, TRUE)
    \/ response_sent(1)
    \/ \E key \in DOMAIN store : Expire(key)

SpecTranslate == InitTranslate /\ [][NextTranslate]_vars

\* Chat requests with every kind of X-API-Key header (none, empty, unknown,
\* deactivated, active) while Redis is up and may hold a live entry
InitReject ==
    /\ redisConn = "none"
    /\ store \in {EmptyStore, EarlierEntry}
    /\ usage = <<>>
    /\ req = [r \in ReqIds |-> IdleReq]
    /\ last = NoCall
    /\ expect = [p \in Pairs |-> None]
    /\ app = "starting"
    /\ hits = NoHits
    /\ admitted = NoneAdmitted
    /\ admin = NoAdmin
    /\ now = 0
    /\ instances = NoInstances
    /\ apiKeys = [id \in KeyIds |->
                     IF id = 1 THEN NewRow(RawKeySeq[1])
                     ELSE [NewRow(RawKeySeq[id]) EXCEPT !.is_active = FALSE]]
    /\ probe = NoProbe

NextReject ==
    \/ lifespan_startup(TRUE)
    \/ \E b \in Bodies, h \in Headers :
          hits["ip1"] < MaxBurst /\ http_request(1, "chat", b, h, "ip1")
    \/ \E dbOk \in BOOLEAN : authenticate(1, dbOk)
    \/ rate_limit(1)
    \/ window_elapsed
    \/ cache_lookup(1, TRUE)
    \/ \E res \in Completions : upstream_call(1, res)
    \/ cache_store(1, TRUE)
    \/ record_step(1, TRUE)
    \/ response_sent(1)

SpecReject == InitReject /\ [][NextReject]_vars

----------------------------------------------------------------------------
(* Properties *)

Done(r) == req[r].pc = "done"
IsHit(r) == Done(r) /\ req[r].hit
IsMiss(r) == Done(r) /\ ~req[r].hit /\ req[r].endpoint \in CachedEndpoints
UpstreamOk(r) == req[r].provider.kind = "ok"

\* the counts the provider reported for the request's upstream call
ReportedPrompt(r) == IF req[r].provider.has_usage THEN req[r].provider.prompt_tokens ELSE 0
ReportedCompletion(r) ==
    IF req[r].provider.has_usage THEN req[r].provider.completion_tokens ELSE 0

\* C1 (as claimed): a request answered from the cache appends one Usage Record for
\* the calling credential, tagged with its endpoint, with zero prompt and
\* completion tokens.
C1_HitAppendsZeroRecord ==
    \A r \in ReqIds : IsHit(r) =>
        usage = Append(req[r].usage0,
                       UsageRow(req[r].api_key, EndpointTag(req[r].endpoint), 0, 0, 0))

\* C1 (amended): a request that passes authentication and is answered from the
\* cache returns the cached response with status 200, makes no upstream call and
\* appends no Usage Record: the usage table is as it was when the request arrived.
C1_HitAppendsNothing ==
    \A r \in ReqIds : IsHit(r) =>
        /\ usage = req[r].usage0
        /\ req[r].api_key # 0
        /\ req[r].status = 200
        /\ req[r].upstream_calls = 0
        /\ req[r].response \in { provider_response(req[r], c) : c \in Completions }

C1_Witness ==
    \E r \in ReqIds : IsHit(r) /\ req[r].usage0 # <<>> /\ req[r].response.prompt_tokens = 2

\* C2: a request that misses the cache, whose upstream call succeeds and whose
\* usage row the database accepts, leaves the usage table as it was at arrival
\* plus exactly one row: the caller's credential, the endpoint's tag, the
\* prompt and completion counts the provider reported, tokens_used their sum.
C2_MissAppendsOneRecord ==
    \A r \in ReqIds : (IsMiss(r) /\ UpstreamOk(r) /\ "db" \notin req[r].faults) =>
        /\ req[r].status = 200
        /\ usage = Append(req[r].usage0,
                          [api_key_id |-> req[r].api_key,
                           endpoint |-> EndpointTag(req[r].endpoint),
                           prompt_tokens |-> ReportedPrompt(r),
                           completion_tokens |-> ReportedCompletion(r),
                           tokens_used |-> ReportedPrompt(r) + ReportedCompletion(r),
                           created_at |-> now])

C2_Witness ==
    \E r \in ReqIds :
        /\ IsMiss(r) /\ UpstreamOk(r) /\ req[r].status = 200
        /\ req[r].provider.has_usage
        /\ req[r].usage0 # <<>>
        /\ Len(usage) = Len(req[r].usage0) + 1

C4_UpstreamFailureOutcome ==
    \A r \in ReqIds : (Done(r) /\ req[r].provider.kind \in FailureKinds) =>
        /\ req[r].upstream_calls = 1
        /\ req[r].provider.kind = "AuthenticationError" =>
              req[r].status = 500 /\ req[r].detail = "AI service configuration error"
        /\ req[r].provider.kind = "RateLimitError" =>
              req[r].status = 429 /\ req[r].detail = "AI service is busy, please try again later"
        /\ req[r].provider.kind = "APIConnectionError" =>
              req[r].status = 503 /\ req[r].detail = "AI service temporarily unavailable"
        /\ req[r].provider.kind = "Exception" =>
              req[r].status = 500 /\ req[r].detail = "An unexpected error occurred"

C4_Witness ==
    \E r \in ReqIds : Done(r) /\ req[r].provider.kind = "RateLimitError" /\ req[r].status = 429

\* C5: on the cache-miss path, when the upstream call succeeded and appending
\* the Usage Record fails, the request ends in an error outcome, never in a
\* success response.
C5_RecordFailureFailsRequest ==
    \A r \in ReqIds : (IsMiss(r) /\ UpstreamOk(r) /\ "db" \in req[r].faults) =>
        /\ req[r].status >= 400
        /\ usage = req[r].usage0

C5_Witness ==
    \E r \in ReqIds : IsMiss(r) /\ UpstreamOk(r) /\ "db" \in req[r].faults /\ req[r].status = 500

\* C6: a request during which the cache was disconnected or a cache get/set
\* failed is never answered from the cache and never fails because of the
\* cache: the upstream is called exactly once, and when the upstream call and
\* the usage write succeed the upstream result is returned with status 200 and
\* one Usage Record is appended.
C6_CacheFaultIsMiss ==
    \A r \in ReqIds : (Done(r) /\ "cache" \in req[r].faults) =>
        /\ ~req[r].hit
        /\ req[r].upstream_calls = 1
        /\ (UpstreamOk(r) /\ "db" \notin req[r].faults) =>
              /\ req[r].status = 200
              /\ req[r].response = provider_response(req[r], req[r].provider)
              /\ Len(usage) = Len(req[r].usage0) + 1
        /\ req[r].status >= 400 => (~UpstreamOk(r) \/ "db" \in req[r].faults)

C6_Witness ==
    \E r \in ReqIds : /\ Done(r) /\ "cache" \in req[r].faults /\ req[r].status = 200
                      /\ redisConn = "client"
                      /\ generate_key(req[r].endpoint, request_key_data(req[r]))
                            \in DOMAIN store

ApiOps == {"get", "set", "delete", "clear"}
Degraded(c) == c.conn = "none" \/ ~c.ok

\* C7: no CacheService call raises; with the connector absent (never connected
\* or connect failed) or the backend failing on the call, get returns None, set
\* and delete leave the backend as it was, clear_prefix returns 0; and on a
\* connected healthy cache get returns None for a pair with no live entry.
C7_CacheNeverRaises ==
    [][ last'.op \in ApiOps =>
          /\ ~last'.raised
          /\ Degraded(last') =>
                /\ last'.op = "get" => last'.result = None
                /\ last'.op \in {"set", "delete"} => store' = store
                /\ last'.op = "clear" => last'.result.val = <<0>> /\ store' = store
          /\ (last'.op = "get" /\ ~Degraded(last')
                /\ ~expect[<<last'.prefix, last'.mapping>>].some) => last'.result = None
    ]_vars

C7_Witness ==
    /\ last.op = "delete" /\ last.conn = "client" /\ ~last.ok
    /\ \E p \in Pairs : Truthy(expect[p]) /\ PairKey[p] \in DOMAIN store

\* C8 (as claimed): on a connected healthy cache, get(ns, f) returns exactly the
\* value of the latest set(ns, f, v) that has neither expired nor been deleted,
\* and None when there is none.
C8_RoundTrip ==
    (last.op = "get" /\ ~Degraded(last)) =>
        last.result = expect[<<last.prefix, last.mapping>>]

\* C9: clear_prefix(ns) on a connected, reachable cache removes every entry
\* stored under ns, returns how many it removed, and leaves the entries of every
\* other namespace as they were.
C9_ClearPrefixFrame ==
    [][ (last'.op = "clear" /\ ~Degraded(last')) =>
          /\ \A p \in Pairs : p[1] = last'.prefix => PairKey[p] \notin DOMAIN store'
          /\ last'.result.val =
                << Cardinality({ p \in Pairs : p[1] = last'.prefix /\ expect[p].some }) >>
          /\ \A p \in Pairs : p[1] # last'.prefix =>
                /\ (PairKey[p] \in DOMAIN store') = (PairKey[p] \in DOMAIN store)
                /\ PairKey[p] \in DOMAIN store => store'[PairKey[p]] = store[PairKey[p]]
    ]_vars

C9_Witness ==
    /\ last.op = "clear" /\ ~Degraded(last) /\ last.result.val = <<2>>
    /\ \E p \in Pairs : p[1] # last.prefix /\ PairKey[p] \in DOMAIN store

\* C10: two dicts with the same field/value pairs, in whatever insertion order,
\* get the same key under one namespace, and the key starts with the namespace
\* followed by ':'.
C10_KeyOrderIndependent ==
    probe.done =>
        /\ AsMapping(probe.d1) = AsMapping(probe.d2) => probe.k1 = probe.k2
        /\ Len(probe.k1) = 3 /\ probe.k1[1] = probe.prefix /\ probe.k1[2] = ":"
        /\ Len(probe.k2) = 3 /\ probe.k2[1] = probe.prefix /\ probe.k2[2] = ":"

C10_Witness ==
    /\ probe.done /\ probe.d1 # probe.d2 /\ AsMapping(probe.d1) = AsMapping(probe.d2)
    /\ probe.k1 = probe.k2

SameNames(d1, d2) == { p[1] : p \in AsMapping(d1) } = { p[1] : p \in AsMapping(d2) }

\* C11: two dicts over the same field names that differ in the value of at least
\* one field get different keys under one namespace (and so do any two dicts
\* that are different mappings).
C11_KeyDistinct ==
    probe.done =>
        /\ (SameNames(probe.d1, probe.d2) /\ AsMapping(probe.d1) # AsMapping(probe.d2))
              => probe.k1 # probe.k2
        /\ AsMapping(probe.d1) # AsMapping(probe.d2) => probe.k1 # probe.k2

C11_Witness ==
    /\ probe.done /\ SameNames(probe.d1, probe.d2) /\ Len(probe.d1) = 4
    /\ AsMapping(probe.d1) # AsMapping(probe.d2) /\ probe.k1 # probe.k2

\* C18: start-up ends in the serving state whether or not the connect succeeded;
\* the health check answers 'healthy' with cache = is_connected; and once the
\* process runs with no connector (the connect at start-up failed) it keeps
\* none until it stops, no request is answered from the cache, and no step
\* writes or changes an entry of the backend (entries there can only expire).
C18_StartupWithoutCache ==
    [][ /\ (app = "starting" /\ app' # "starting") => app' = "serving"
        /\ (app # "starting" /\ redisConn = "none") =>
              /\ redisConn' = "none"
              /\ \A k \in DOMAIN store' : k \in DOMAIN store /\ store'[k] = store[k]
              /\ \A r \in ReqIds : ~req'[r].hit
        /\ (last'.op = "health" /\ last' # last) =>
              last'.result = Some(<<"healthy", IF redisConn = "none" THEN "false" ELSE "true">>)
    ]_vars

C18_Witness ==
    /\ app = "serving" /\ redisConn = "none" /\ store = EarlierEntry
    /\ last.op = "health" /\ last.result = Some(<<"healthy", "false">>)
    /\ \E r \in ReqIds : Done(r) /\ req[r].status = 200 /\ req[r].upstream_calls = 1

\* the key a request's entry is stored under: its endpoint and body, nothing else
RequestKey(q) == generate_key(q.endpoint, request_key_data(q))

\* C12: whatever credential a request carries, when its lookup finds a live
\* entry under the key of its endpoint and fields, the request is answered with
\* that entry's response, with status 200 and without an upstream call.
C12_EntriesSharedAcrossCallers ==
    [][ \A r \in ReqIds :
          (req[r].pc = "lookup" /\ req'[r].pc # "lookup" /\ redisConn = "client"
             /\ RequestKey(req[r]) \in DOMAIN store) =>
                /\ req'[r].pc = "done" /\ req'[r].hit /\ req'[r].status = 200
                /\ req'[r].upstream_calls = 0
                /\ req'[r].response = json_loads_response(store[RequestKey(req[r])].val)
    ]_vars

C12_Witness ==
    /\ Done(1) /\ ~req[1].hit /\ req[1].status = 200 /\ req[1].api_key = 1
    /\ Done(2) /\ req[2].hit /\ req[2].api_key = 2 /\ req[2].body = req[1].body
    /\ req[2].response = req[1].response
    /\ \A i \in DOMAIN usage : usage[i].api_key_id = 1

\* C13: a request that missed the cache makes its own upstream call whatever the
\* other requests in flight do, and its store step overwrites the entry under
\* its key with its own response; so when two overlapping requests for the same
\* fields have both missed and finished, the entry holds one of their two
\* responses (that of the later write).
C13_NoSingleFlight ==
    [][ /\ \A r \in ReqIds :
              /\ (req[r].pc = "upstream" /\ req'[r].pc # "upstream")
                    => req'[r].upstream_calls = 1
              /\ (req[r].pc = "store" /\ req'[r].pc = "record" /\ redisConn = "client")
                    => /\ RequestKey(req[r]) \in DOMAIN store'
                       /\ store'[RequestKey(req[r])].val = json_dumps_response(req[r].response)
        /\ (\A r \in ReqIds : /\ req'[r].pc = "done" /\ ~req'[r].hit /\ req'[r].status = 200
                               /\ req'[r].body = req'[1].body)
              => \E r \in ReqIds :
                    /\ RequestKey(req'[r]) \in DOMAIN store'
                    /\ store'[RequestKey(req'[r])].val = json_dumps_response(req'[r].response)
    ]_vars

C13_Witness ==
    /\ \A r \in ReqIds : /\ Done(r) /\ ~req[r].hit /\ req[r].status = 200
                          /\ req[r].upstream_calls = 1 /\ req[r].body = req[1].body
    /\ req[1].response # req[2].response
    /\ store[RequestKey(req[1])].val = json_dumps_response(req[1].response)

RateLimited(r) == Done(r) /\ req[r].status = 429 /\ req[r].detail = "Rate limit exceeded"

\* C14 (as claimed): the limiter's budget is per credential: a request is
\* refused only when its own credential has used up its budget in the window,
\* and a credential never gets more than one budget per window, whatever
\* origins its requests come from.
C14_BudgetPerCredential ==
    /\ \A r \in ReqIds : RateLimited(r) => admitted[req[r].api_key] >= rate_limit_per_minute
    /\ \A id \in KeyIds : admitted[id] <= rate_limit_per_minute

IsStream(q) == q.endpoint = "stream"

\* C15: no step of a streaming chat request reads or changes the cache: the
\* backend's contents are the same after the step as before it, the request
\* never enters the lookup or store steps and is never answered from an entry.
C15_StreamBypassesCache ==
    [][ \A r \in ReqIds :
          (req'[r] # req[r] /\ (IsStream(req[r]) \/ IsStream(req'[r]))) =>
              /\ store' = store
              /\ ~req'[r].hit
              /\ req'[r].pc \notin {"lookup", "upstream", "store", "record"}
    ]_vars

C15_Witness ==
    \E r \in ReqIds :
        /\ Done(r) /\ IsStream(req[r]) /\ req[r].gen.state = "completed"
        /\ Len(req[r].gen.units) > 1
        /\ generate_key("chat", cache_key_data("chat", req[r].body)) \in DOMAIN store

Streamed(q) == IsStream(q) /\ q.gen.state # "none"

\* C16: once a streaming chat request has had its usage row accepted and its
\* response started, the usage table is the table at arrival plus exactly one
\* row for the caller tagged '/api/v1/chat/stream' with zero prompt, completion
\* and total tokens; this holds before any unit is sent and stays so while
\* units are sent and after the stream completed, failed or was abandoned.
C16_StreamRecordsZeroOnce ==
    \A r \in ReqIds :
        /\ Streamed(req[r]) =>
              usage = Append(req[r].usage0,
                             UsageRow(req[r].api_key, "/api/v1/chat/stream", 0, 0, 0))
        /\ req[r].gen.units # <<>> => Streamed(req[r])

C16_Witness ==
    \E r \in ReqIds :
        /\ Done(r) /\ Streamed(req[r]) /\ req[r].gen.state = "completed"
        /\ req[r].gen.full_content # <<>> /\ req[r].usage0 # <<>>

\* the chunks that carry content, and the text they add up to
WithContent(chunks) == SelectSeq(chunks, Truthy)

RECURSIVE Joined(_)
Joined(chunks) == IF chunks = <<>> THEN <<>> ELSE Head(chunks).val \o Joined(Tail(chunks))

\* C17: when a stream completes, the units sent are one token unit per upstream
\* chunk that carried content, in arrival order, followed by exactly one final
\* unit whose full_text is those tokens joined in order; after the final unit
\* no further unit is sent.
C17_StreamUnits ==
    [][ \A r \in ReqIds :
          /\ req'[r].gen.state = "completed" =>
                LET tokens == WithContent(req'[r].arrived)
                IN  req'[r].gen.units =
                        [i \in 1..Len(tokens) |-> token_unit(tokens[i].val)]
                        \o << done_unit(Joined(tokens)) >>
          /\ (req[r].gen.state = "completed" /\ req'[r].pc # "idle") =>
                req'[r].gen.units = req[r].gen.units
    ]_vars

C17_Witness ==
    \E r \in ReqIds :
        /\ Done(r) /\ req[r].gen.state = "completed"
        /\ Len(req[r].arrived) = 2 /\ Len(req[r].gen.units) = 2
        /\ req[r].arrived[1] = Some(<<>>)

\* a step of the key administration or usage endpoints: no request task moves
AdminStep == admin'.op # "none" /\ req' = req /\ hits' = hits /\ app' = app

LookupOps == {"get", "update", "delete", "usage", "summary"}

\* C19: the step that deletes a credential answers 204 and removes exactly the
\* Usage Records of that credential, keeping the others in order; no Usage
\* Record belongs to a credential that does not exist; and every call that looks
\* a missing credential up by id (key read, update, delete, usage list, usage
\* summary) answers 404.
C19_DeleteCascades ==
    [][ \A id \in KeyIds :
          /\ (AdminStep /\ admin'.op = "delete" /\ admin'.id = id /\ apiKeys[id].exists) =>
                /\ admin'.status = 204
                /\ ~apiKeys'[id].exists
                /\ usage' = SelectSeq(usage, LAMBDA u : u.api_key_id # id)
          /\ ~apiKeys'[id].exists => RowsOf(usage', id) = <<>>
          /\ (AdminStep /\ admin'.op \in LookupOps /\ admin'.id = id /\ ~apiKeys[id].exists) =>
                admin'.status = 404
    ]_vars

C19_Witness ==
    /\ admin.op = "summary" /\ admin.status = 404
    /\ ~apiKeys[admin.id].exists /\ apiKeys[admin.id].key_hash # <<>>
    /\ usage # <<>>
    /\ \E r \in ReqIds : /\ Done(r) /\ Streamed(req[r]) /\ req[r].api_key = admin.id
                          /\ req[r].usage0 = usage

\* C20: every step leaves the usage table as it was, or appends one row to it,
\* or is the deletion of a credential and removes exactly that credential's
\* rows; no step changes a field of an existing row.
C20_UsageAppendOnly ==
    [][ \/ usage' = usage
        \/ /\ Len(usage') = Len(usage) + 1
           /\ SubSeq(usage', 1, Len(usage)) = usage
        \/ \E id \in KeyIds :
              /\ apiKeys[id].exists /\ ~apiKeys'[id].exists
              /\ usage' = SelectSeq(usage, LAMBDA u : u.api_key_id # id)
    ]_vars

C20_Witness ==
    /\ Len(usage) >= 2
    /\ admin.op = "update" /\ admin.status = 200
    /\ apiKeys[admin.id].exists /\ ~apiKeys[admin.id].is_active
    /\ RowsOf(usage, admin.id) # <<>>
    /\ \E i \in DOMAIN usage : usage[i].api_key_id # admin.id

\* the raw key create_api_key generated for a credential
RawKeyOf(id) == RawKeySeq[id]

\* C21: the raw secret is never persisted and is disclosed exactly once: every
\* row of the credential table holds the hash of its raw key and the key's first
\* characters (a proper prefix of it) and nothing else of the key; a request is
\* authenticated as the row whose hash equals the hash of the presented key; the
\* response to the creation carries the full key, and no credential in the body
\* of any other response (read, list, update) carries a key or a prefix equal
\* to the full key.
C21_SecretDisclosedOnce ==
    [][ /\ \A id \in KeyIds : apiKeys'[id].exists =>
              /\ DOMAIN apiKeys'[id] =
                    {"exists", "key_hash", "key_prefix", "is_active", "last_used_at"}
              /\ apiKeys'[id].key_hash = hash_key(RawKeyOf(id))
              /\ apiKeys'[id].key_prefix = SubSeq(RawKeyOf(id), 1, 1)
              /\ apiKeys'[id].key_prefix # RawKeyOf(id)
        /\ \A r \in ReqIds : (req[r].pc = "auth" /\ req'[r].api_key # 0) =>
              apiKeys[req'[r].api_key].key_hash = hash_key(req[r].header.val)
        /\ (AdminStep /\ admin'.op = "create") =>
              /\ Len(admin'.items) = 1
              /\ admin'.items[1].key = Some(RawKeyOf(admin'.id))
              /\ hash_key(admin'.items[1].key.val) = apiKeys'[admin'.id].key_hash
        /\ admin'.op # "create" =>
              \A i \in DOMAIN admin'.items :
                  /\ admin'.items[i].key = None
                  /\ admin'.items[i].key_prefix # RawKeyOf(admin'.items[i].id)
    ]_vars

C21_Witness ==
    /\ admin.op = "list" /\ Len(admin.items) = 2
    /\ \A i \in DOMAIN admin.items : admin.items[i].key = None
    /\ \E r \in ReqIds : Done(r) /\ req[r].api_key = 2 /\ req[r].status = 200
    /\ apiKeys[2].last_used_at = 1

\* C22 (as claimed): stamping last-used is best-effort and off the critical path:
\* a request whose key matches an active credential passes authentication as
\* that credential and goes on to its handler whether or not the last-used
\* write succeeds.
C22_StampBestEffort ==
    [][ \A r \in ReqIds :
          (req[r].pc = "auth" /\ req'[r].pc # "auth" /\ Truthy(req[r].header)
             /\ \E id \in KeyIds : /\ apiKeys[id].exists /\ apiKeys[id].is_active
                                    /\ apiKeys[id].key_hash = hash_key(req[r].header.val))
          => /\ req'[r].pc = "limit"
             /\ req'[r].status = 0
             /\ req'[r].api_key # 0
    ]_vars

\* the sum of a column over the rows at the given positions
RECURSIVE SumAt(_, _, _)
SumAt(rows, positions, column) ==
    IF positions = {} THEN 0
    ELSE LET i == CHOOSE i \in positions : TRUE
         IN  rows[i][column] + SumAt(rows, positions \ {i}, column)

\* C23: the summary of a credential over a window reports the number of that
\* credential's rows created at or after the window start and the sums of their
\* tokens_used, prompt_tokens and completion_tokens; rows of other credentials
\* and rows older than the window start are not counted; with no such row all
\* four figures are 0.  The window starts the requested number of days before
\* the time of the call.
C23_SummaryOverWindow ==
    [][ (AdminStep /\ admin'.op = "summary" /\ admin'.status = 200 /\ admin' # admin) =>
          LET sm == admin'.summary
              qualifying == { i \in DOMAIN usage : /\ usage[i].api_key_id = admin'.id
                                                   /\ usage[i].created_at >= sm.period_start }
          IN  /\ sm.period_end = now /\ now - sm.period_start \in Days
              /\ sm.total_requests = Cardinality(qualifying)
              /\ sm.total_tokens = SumAt(usage, qualifying, "tokens_used")
              /\ sm.total_prompt_tokens = SumAt(usage, qualifying, "prompt_tokens")
              /\ sm.total_completion_tokens = SumAt(usage, qualifying, "completion_tokens")
              /\ qualifying = {} =>
                    /\ sm.total_requests = 0 /\ sm.total_tokens = 0
                    /\ sm.total_prompt_tokens = 0 /\ sm.total_completion_tokens = 0
    ]_vars

C23_Witness ==
    /\ admin.op = "summary" /\ admin.status = 200
    /\ admin.summary.total_requests = 1 /\ admin.summary.total_tokens = 5
    /\ admin.summary.total_prompt_tokens = 2 /\ admin.summary.total_completion_tokens = 3
    /\ Len(usage) = 2
    /\ \E i \in DOMAIN usage : /\ usage[i].api_key_id = admin.id
                                /\ usage[i].created_at < admin.summary.period_start
                                /\ usage[i].tokens_used = 5
    /\ \E i \in DOMAIN usage : /\ usage[i].api_key_id = admin.id
                                /\ usage[i].created_at = admin.summary.period_start

\* C24: every translate request that ends with status 200, answered by the
\* upstream or from the cache, reports as source_language the marker
\* "auto-detected", never the literal "auto", when it asked for "auto", and the
\* language it named otherwise.
C24_SourceLanguageReported ==
    \A r \in ReqIds :
        (Done(r) /\ req[r].endpoint = "translate" /\ req[r].status = 200) =>
            /\ req[r].source_language = "auto" =>
                  /\ req[r].response.source_language # "auto"
                  /\ req[r].response.source_language = "auto-detected"
            /\ req[r].source_language # "auto" =>
                  req[r].response.source_language = req[r].source_language

C24_Witness ==
    \E r \in ReqIds :
        /\ IsHit(r) /\ req[r].endpoint = "translate" /\ req[r].source_language = "auto"
        /\ req[r].response.source_language = "auto-detected"
        /\ req[r].upstream_calls = 0 /\ Len(usage) = 1

\* the _redis a holder of a CacheService object sees
ConnOf(obj) == IF obj = 0 THEN redisConn ELSE instances.redis[obj]

\* C25 (as claimed): CacheService is a process-wide singleton: every call of
\* CacheService() returns the same object, so any two holders see the same
\* connection state.
C25_Singleton ==
    \A h1 \in DOMAIN instances.held, h2 \in DOMAIN instances.held :
        /\ instances.held[h1] = instances.held[h2]
        /\ ConnOf(instances.held[h1]) = ConnOf(instances.held[h2])

\* an entry is written or overwritten by the step
EntryWritten ==
    \E k \in DOMAIN store' : k \notin DOMAIN store \/ store'[k] # store[k]

\* C26: the step in which a request's upstream call fails, whatever the failure
\* class, ends the request with an error status and leaves the cache and the
\* usage table as they were; such a request never reaches the store or record
\* step and ends with the usage table as it was at its arrival; and every step
\* that writes an entry or appends a Usage Record belongs to a request whose
\* upstream call succeeded.
C26_StoreAndRecordOnSuccessOnly ==
    [][ /\ \A r \in ReqIds :
              /\ (req[r].pc = "upstream" /\ req'[r].provider.kind \in FailureKinds) =>
                    /\ req'[r].pc = "done" /\ req'[r].status >= 400
                    /\ store' = store
                    /\ usage' = usage
              /\ req'[r].provider.kind \in FailureKinds =>
                    /\ req'[r].pc = "done"
                    /\ usage' = req'[r].usage0
        /\ EntryWritten => \E r \in ReqIds : req[r].pc = "store" /\ UpstreamOk(r)
        /\ usage' # usage => \E r \in ReqIds : req[r].pc = "record" /\ UpstreamOk(r)
    ]_vars

C26_Witness ==
    \E r \in ReqIds :
        /\ Done(r) /\ req[r].provider.kind = "APIConnectionError" /\ req[r].status = 503
        /\ redisConn = "client" /\ "cache" \notin req[r].faults
        /\ RequestKey(req[r]) \notin DOMAIN store
        /\ usage = req[r].usage0 /\ usage # <<>>

\* C27: the step that rejects a request at authentication (no key, unknown key,
\* deactivated key) ends it with 401 or 403 and changes nothing else: the cache,
\* the usage table and every credential row, last_used_at included, are as
\* before; and a request that has not passed authentication is never in the
\* lookup, upstream, store or record step, has made no upstream call and
\* carries no response body, whether or not a live entry exists under its key.
C27_RejectedRequestHasNoEffect ==
    [][ \A r \in ReqIds :
          /\ (req[r].pc = "auth" /\ req'[r].pc # "auth" /\ req'[r].status \in {401, 403}) =>
                /\ req'[r].pc = "done" /\ req'[r].api_key = 0
                /\ store' = store
                /\ usage' = usage
                /\ apiKeys' = apiKeys
                /\ hits' = hits
          /\ req'[r].api_key = 0 =>
                /\ req'[r].pc \in {"idle", "auth", "done"}
                /\ ~req'[r].hit
                /\ req'[r].upstream_calls = 0
                /\ req'[r].response = NoResponse
                /\ req'[r].pc = "done" => /\ req'[r].status \in {401, 403, 500}
                                          /\ usage' = req'[r].usage0
    ]_vars

C27_Witness ==
    \E r \in ReqIds :
        /\ Done(r) /\ req[r].status = 403 /\ req[r].header = Some(RawKeySeq[2])
        /\ redisConn = "client" /\ RequestKey(req[r]) \in DOMAIN store
        /\ apiKeys[2].last_used_at = 0 /\ apiKeys[1].last_used_at = 1
        /\ usage # <<>>

\* C28 (as claimed): metering and caching take effect together: once no request
\* is between its store and its record step, every entry a handler wrote has a
\* Usage Record of the upstream call that produced it (same endpoint, same
\* prompt and completion counts); so no result stays cached when recording its
\* usage failed.
C28_EntryHasUsageRecord ==
    (\A r \in ReqIds : req[r].pc # "record") =>
        \A k \in DOMAIN store :
            \E i \in DOMAIN usage :
                /\ usage[i].endpoint = EndpointTag(k[1])
                /\ usage[i].prompt_tokens = json_loads_response(store[k].val).prompt_tokens
                /\ usage[i].completion_tokens =
                      json_loads_response(store[k].val).completion_tokens

\* C29: every Usage Record references a credential that exists; and when the
\* credential of a request was deleted after its authentication, the step that
\* would record its usage appends nothing and ends the request with status 500.
C29_UsageReferencesCredential ==
    [][ /\ \A i \in DOMAIN usage' : apiKeys'[usage'[i].api_key_id].exists
        /\ \A r \in ReqIds :
              (req[r].pc \in {"record", "stream"} /\ req'[r].pc # req[r].pc
                 /\ ~apiKeys[req[r].api_key].exists) =>
                    /\ usage' = usage
                    /\ req'[r].pc = "done"
                    /\ req'[r].status = 500
    ]_vars

C29_Witness ==
    \E r \in ReqIds :
        /\ Done(r) /\ req[r].endpoint = "chat" /\ req[r].upstream_calls = 1
        /\ req[r].api_key # 0 /\ ~apiKeys[req[r].api_key].exists
        /\ req[r].status = 500 /\ "db" \in req[r].faults
        /\ usage = req[r].usage0 /\ usage # <<>>

\* C30: every entry in the cache has a positive expiry; a call of set that
\* writes an entry gives it the ttl argument when that is positive and
\* cache_ttl_seconds when it is omitted (or 0); and a call with a negative ttl,
\* like a call on a disconnected or failing cache, writes nothing.
C30_EntriesExpire ==
    [][ /\ \A k \in DOMAIN store' : store'[k].ttl > 0
        /\ (last'.op = "set" /\ EntryWritten) =>
              \A k \in DOMAIN store' :
                  (k \notin DOMAIN store \/ store'[k] # store[k]) =>
                      /\ last'.ttl > 0 => store'[k].ttl = last'.ttl
                      /\ last'.ttl = 0 => store'[k].ttl = cache_ttl_seconds
        /\ (last'.op = "set" /\ last' # last /\ (last'.ttl < 0 \/ Degraded(last'))) =>
              store' = store
    ]_vars

C30_Witness ==
    /\ last.op = "set" /\ last.ttl = -1 /\ ~Degraded(last)
    /\ \E k \in DOMAIN store : store[k].ttl = 60
    /\ \E k \in DOMAIN store : store[k].ttl = cache_ttl_seconds

====
